---------------------------- MODULE Spec2Model ----------------------------
(***************************************************************************)
(* A model of vcf-gene-knockout-parser.py: the knockout classifier         *)
(* (is_knockout), the aggregation of annotation records against a call     *)
(* file (parse_vep_results) and the per-chromosome merge of main.          *)
(*                                                                         *)
(* Python dicts are functions whose DOMAIN is the set of keys present, so  *)
(* that d.get(k, default) is modelled by what it does.  Text that the code *)
(* splits or searches (the exon field, the variant key) is a sequence of   *)
(* one-character strings; text that the code only compares (consequence    *)
(* terms, gene symbols) is a string.                                       *)
(***************************************************************************)
EXTENDS Integers, Sequences, FiniteSets, TLC

VARIABLES
    pc,                         \* position of the running function
    variant_data,               \* is_knockout: its argument
    ko_result,                  \* is_knockout: its return value
    vep_results,                \* parse_vep_results: the annotation records
    vcf_file,                   \* parse_vep_results: the records of the call file
    vcf_reader,                 \* parse_vep_results: records the reader has consumed
    rec_idx,                    \* parse_vep_results: position of the outer loop
    tc_idx,                     \* parse_vep_results: position of the inner loop
    all_knockouts,              \* parse_vep_results: gene -> list of variant keys
    homozygous_knockouts,       \* parse_vep_results: gene -> list of variant keys
    chromosome_files,           \* main: the partitions, in dict order
    chrom_idx,                  \* main: position of the loop over the partitions
    main_all_knockouts,         \* main: all_knockouts
    main_homozygous_knockouts,  \* main: homozygous_knockouts
    partials                    \* main: what process_chromosome returned, per partition

vars == <<pc, variant_data, ko_result, vep_results, vcf_file, vcf_reader, rec_idx,
          tc_idx, all_knockouts, homozygous_knockouts, chromosome_files, chrom_idx,
          main_all_knockouts, main_homozygous_knockouts, partials>>

koVars == <<variant_data, ko_result>>
parseVars == <<vep_results, vcf_file, vcf_reader, rec_idx, tc_idx, all_knockouts,
               homozygous_knockouts>>
mainVars == <<chromosome_files, chrom_idx, main_all_knockouts,
              main_homozygous_knockouts, partials>>

-----------------------------------------------------------------------------
(* Bounds of the model.                                                    *)

MaxTranscripts == 2     \* transcript consequences per annotation record
MaxRecords == 2         \* annotation records per call of parse_vep_results
MaxCalls == 2           \* records per call file

-----------------------------------------------------------------------------
(* Python primitives.                                                      *)

\* d.get(k, default)
Get(d, k, default) == IF k \in DOMAIN d THEN d[k] ELSE default

Range(s) == {s[i] : i \in 1..Len(s)}

SeqsUpTo(S, n) == UNION {[1..k -> S] : k \in 0..n}

\* The empty dict.
EmptyDict == <<>>

\* needle in haystack, for str
Contains(haystack, needle) ==
    \E i \in 0..(Len(haystack) - Len(needle)) :
        SubSeq(haystack, i + 1, i + Len(needle)) = needle

RECURSIVE SplitFrom(_, _, _, _)
SplitFrom(s, i, cur, sep) ==
    IF i > Len(s) THEN <<cur>>
    ELSE IF s[i] = sep THEN <<cur>> \o SplitFrom(s, i + 1, <<>>, sep)
    ELSE SplitFrom(s, i + 1, Append(cur, s[i]), sep)

\* s.split(sep) for a one-character separator: "" gives [""], "/" gives ["", ""].
Split(s, sep) == SplitFrom(s, 1, <<>>, sep)

DigitChar(d) ==
    CASE d = 0 -> "0" [] d = 1 -> "1" [] d = 2 -> "2" [] d = 3 -> "3" [] d = 4 -> "4"
      [] d = 5 -> "5" [] d = 6 -> "6" [] d = 7 -> "7" [] d = 8 -> "8" [] d = 9 -> "9"

\* str(n) for n >= 0, as an f-string renders an int
RECURSIVE IntToStr(_)
IntToStr(n) ==
    IF n < 10 THEN <<DigitChar(n)>> ELSE IntToStr(n \div 10) \o <<DigitChar(n % 10)>>

\* d[k].append(v), after d[k] = [] when k is not a key of d
DictAppend(d, k, v) ==
    [x \in DOMAIN d \cup {k} |-> IF x = k THEN Append(Get(d, k, <<>>), v) ELSE d[x]]

\* d.update(e): every key of e replaces the entry of d
DictUpdate(d, e) ==
    [x \in DOMAIN d \cup DOMAIN e |-> IF x \in DOMAIN e THEN e[x] ELSE d[x]]

-----------------------------------------------------------------------------
(* is_knockout                                                             *)

\* The set with one term forgotten.
knockout_consequences_without_start_lost ==
    {"stop_gained", "frameshift_variant", "splice_donor_variant",
     "splice_acceptor_variant", "transcript_ablation"}

knockout_consequences ==
    {"stop_gained", "frameshift_variant", "splice_donor_variant",
     "splice_acceptor_variant", "start_lost", "transcript_ablation"}

ConsequenceTerms(transcript_consequence) ==
    Range(Get(transcript_consequence, "consequence_terms", <<>>))

\* line 63
DirectLossOfFunction(transcript_consequence) ==
    ConsequenceTerms(transcript_consequence) \cap knockout_consequences # {}

\* The threshold compared with >= in place of >.
LargeDeletionAtLeast(transcript_consequence) ==
    /\ "deletion" \in ConsequenceTerms(transcript_consequence)
    /\ Get(transcript_consequence, "cds_change_length", 0) >= 100

\* line 66
LargeDeletion(transcript_consequence) ==
    /\ "deletion" \in ConsequenceTerms(transcript_consequence)
    /\ Get(transcript_consequence, "cds_change_length", 0) > 100

\* lines 69-72
BoundarySpliceRegion(transcript_consequence) ==
    /\ "splice_region_variant" \in ConsequenceTerms(transcript_consequence)
    /\ LET exon == Split(Get(transcript_consequence, "exon", <<>>), "/")
       IN  Len(exon) = 2 /\ (exon[1] = <<"1">> \/ exon[1] = exon[2])

TranscriptIsKnockout(transcript_consequence) ==
    \/ DirectLossOfFunction(transcript_consequence)
    \/ LargeDeletion(transcript_consequence)
    \/ BoundarySpliceRegion(transcript_consequence)

\* The loop returns True at the first transcript that satisfies a rule and
\* False when the list is exhausted.
RECURSIVE KnockoutFrom(_, _)
KnockoutFrom(transcripts, i) ==
    IF i > Len(transcripts) THEN FALSE
    ELSE IF TranscriptIsKnockout(transcripts[i]) THEN TRUE
    ELSE KnockoutFrom(transcripts, i + 1)

is_knockout(data) == KnockoutFrom(Get(data, "transcript_consequences", <<>>), 1)


-----------------------------------------------------------------------------
(* parse_vep_results                                                       *)

\* f"{record.CHROM}:{record.POS}"
FormatChromPos(record) == record.CHROM \o <<":">> \o IntToStr(record.POS)

\* next(record for record in vcf_reader if f"{record.CHROM}:{record.POS}" in
\* variant_id): the reader resumes after the records it has consumed and
\* stops at the first record whose text occurs in the variant key.  0 when the
\* reader runs out, where next() raises StopIteration.
NextMatch(file, consumed, variant_id) ==
    LET hits == {i \in (consumed + 1)..Len(file) :
                    Contains(variant_id, FormatChromPos(file[i]))}
    IN  IF hits = {} THEN 0 ELSE CHOOSE i \in hits : \A j \in hits : i <= j

\* line 96
IsHomozygous(vcf_record) == vcf_record.num_het = 0 /\ vcf_record.num_hom_alt > 0

\* The state of a call: both indices, the records the reader has consumed,
\* and whether StopIteration has been raised.
ParseStart == [all |-> EmptyDict, hom |-> EmptyDict, reader |-> 0, raised |-> FALSE]

\* One pass of the inner loop (lines 89-99).
ProcessTranscript(st, variant_id, transcript_consequence, file) ==
    LET gene_symbol == Get(transcript_consequence, "gene_symbol", "Unknown")
        appended == DictAppend(st.all, gene_symbol, variant_id)
        found == NextMatch(file, st.reader, variant_id)
    IN  IF gene_symbol = "Unknown" THEN st
        ELSE IF found = 0
             THEN [all |-> appended, hom |-> st.hom, reader |-> Len(file),
                   raised |-> TRUE]
        ELSE [all |-> appended,
              hom |-> IF IsHomozygous(file[found])
                      THEN DictAppend(st.hom, gene_symbol, variant_id)
                      ELSE st.hom,
              reader |-> found,
              raised |-> FALSE]

RECURSIVE ParseTranscriptsFrom(_, _, _, _, _)
ParseTranscriptsFrom(st, variant_id, transcripts, j, file) ==
    IF st.raised \/ j > Len(transcripts) THEN st
    ELSE ParseTranscriptsFrom(ProcessTranscript(st, variant_id, transcripts[j], file),
                              variant_id, transcripts, j + 1, file)

RECURSIVE ParseRecordsFrom(_, _, _, _)
ParseRecordsFrom(st, results, i, file) ==
    IF st.raised \/ i > Len(results) THEN st
    ELSE IF is_knockout(results[i])
         THEN ParseRecordsFrom(
                  ParseTranscriptsFrom(st, results[i].input,
                      Get(results[i], "transcript_consequences", <<>>), 1, file),
                  results, i + 1, file)
    ELSE ParseRecordsFrom(st, results, i + 1, file)

\* The whole call: the final state, with raised when the call ends in
\* StopIteration instead of returning.
parse_vep_results(results, file) == ParseRecordsFrom(ParseStart, results, 1, file)

-----------------------------------------------------------------------------
(* main                                                                    *)

\* The partitions in the order their chromosomes first occur, each with its
\* records in file order.
RECURSIVE SplitRecordsFrom(_, _, _)
SplitRecordsFrom(file, i, files) ==
    IF i > Len(file) THEN files
    ELSE LET at == {k \in 1..Len(files) : files[k].chrom = file[i].CHROM}
         IN  IF at = {}
             THEN SplitRecordsFrom(file, i + 1,
                      Append(files, [chrom |-> file[i].CHROM, records |-> <<file[i]>>]))
             ELSE SplitRecordsFrom(file, i + 1,
                      [files EXCEPT ![CHOOSE k \in at : TRUE].records =
                                        Append(@, file[i])])

split_vcf_by_chromosome(file) == SplitRecordsFrom(file, 1, <<>>)

\* lines 120-121
MergeStep(merged, partial) ==
    [all |-> DictUpdate(merged.all, partial.all),
     hom |-> DictUpdate(merged.hom, partial.hom)]

\* The loop of lines 113-121 over the results of the partitions.
RECURSIVE MergeFrom(_, _, _)
MergeFrom(merged, results, i) ==
    IF i > Len(results) THEN merged
    ELSE MergeFrom(MergeStep(merged, results[i]), results, i + 1)

MergePartitions(results) ==
    MergeFrom([all |-> EmptyDict, hom |-> EmptyDict], results, 1)

-----------------------------------------------------------------------------
(* Inputs.                                                                 *)

\* A dict with the key k bound to one of vals, or without the key.
Optional(k, vals) == {<<>>} \cup {[x \in {k} |-> v] : v \in vals}

\* Variant keys as the tests write them: chromosome, ":", position, alleles.
VariantKey(chrom, pos) == chrom \o <<":">> \o IntToStr(pos) \o <<"A", ">", "T">>

TermListPool ==
    {<<"stop_gained">>, <<"frameshift_variant">>, <<"splice_donor_variant">>,
     <<"splice_acceptor_variant">>, <<"start_lost">>, <<"transcript_ablation">>,
     <<>>, <<"deletion">>, <<"splice_region_variant">>, <<"synonymous_variant">>,
     <<"synonymous_variant", "stop_gained">>, <<"deletion", "splice_region_variant">>}

CdsLengthPool == {100, 101}

\* "", "1/5", "5/5", "3/5", "1/2/3", "/", "3", "1/x", "x/x"
ExonPool ==
    {<<>>, <<"1", "/", "5">>, <<"5", "/", "5">>, <<"3", "/", "5">>,
     <<"1", "/", "2", "/", "3">>, <<"/">>, <<"3">>, <<"1", "/", "x">>,
     <<"x", "/", "x">>}

\* Every combination of present and absent fields of a transcript consequence.
TranscriptPool ==
    {t @@ c @@ e @@ g :
        t \in Optional("consequence_terms", TermListPool),
        c \in Optional("cds_change_length", CdsLengthPool),
        e \in Optional("exon", ExonPool),
        g \in Optional("gene_symbol", {"GENE1", "Unknown"})}

\* The transcripts that surround the one drawn from TranscriptPool.
BackgroundPool ==
    {<<>>,
     [consequence_terms |-> <<"synonymous_variant">>, gene_symbol |-> "GENE1"],
     [consequence_terms |-> <<"frameshift_variant">>],
     [consequence_terms |-> <<"deletion">>, cds_change_length |-> 100],
     [consequence_terms |-> <<"deletion">>, cds_change_length |-> 101],
     [consequence_terms |-> <<"splice_region_variant">>, exon |-> <<"3", "/", "5">>],
     [consequence_terms |-> <<"splice_region_variant">>, exon |-> <<"5", "/", "5">>]}

InsertAt(s, p, x) ==
    (IF p = 1 THEN <<>> ELSE SubSeq(s, 1, p - 1)) \o <<x>> \o
    (IF p > Len(s) THEN <<>> ELSE SubSeq(s, p, Len(s)))

\* An annotation record without the key transcript_consequences, or with up
\* to MaxTranscripts transcripts: one of TranscriptPool at position p among the
\* transcripts background, drawn from BackgroundPool.
AnnotationRecord(key, background, p, transcript) ==
    [input |-> key,
     transcript_consequences |-> InsertAt(background, p, transcript)]

-----------------------------------------------------------------------------
(* The classifier on its own: is_knockout applied to one annotation record. *)

KoIdle == variant_data = <<>> /\ ko_result = FALSE

ParseIdle ==
    /\ vep_results = <<>> /\ vcf_file = <<>> /\ vcf_reader = 0
    /\ rec_idx = 1 /\ tc_idx = 1
    /\ all_knockouts = EmptyDict /\ homozygous_knockouts = EmptyDict

MainIdle ==
    /\ chromosome_files = <<>> /\ chrom_idx = 1
    /\ main_all_knockouts = EmptyDict /\ main_homozygous_knockouts = EmptyDict
    /\ partials = <<>>

InitKnockout ==
    /\ pc = "call"
    /\ \/ variant_data = [input |-> VariantKey(<<"1">>, 1000)]
       \/ variant_data = [input |-> VariantKey(<<"1">>, 1000),
                          transcript_consequences |-> <<>>]
       \/ \E background \in SeqsUpTo(BackgroundPool, MaxTranscripts - 1) :
          \E p \in 1..(Len(background) + 1) :
          \E transcript \in TranscriptPool :
              variant_data = AnnotationRecord(VariantKey(<<"1">>, 1000),
                                              background, p, transcript)
    /\ ko_result = FALSE
    /\ ParseIdle
    /\ MainIdle

CallIsKnockout ==
    /\ pc = "call"
    /\ ko_result' = is_knockout(variant_data)
    /\ pc' = "done"
    /\ UNCHANGED <<variant_data, parseVars, mainVars>>

NextKnockout == CallIsKnockout

SpecKnockout == InitKnockout /\ [][NextKnockout]_vars

-----------------------------------------------------------------------------
(* The aggregator on its own: parse_vep_results called, as the unit test   *)
(* calls it, with annotation records and a call file of one chromosome.    *)

PositionPool == {100, 1000}

\* (num_het, num_hom_alt) of a call record
GenotypePool == {<<0, 1>>, <<1, 0>>, <<1, 1>>}

CallRecord(chrom, pos, genotype) ==
    [CHROM |-> chrom, POS |-> pos, num_het |-> genotype[1], num_hom_alt |-> genotype[2]]

CallPool(chroms) ==
    {CallRecord(c, p, g) : c \in chroms, p \in PositionPool, g \in GenotypePool}

\* Transcripts as the aggregator sees them: a knockout term with or without
\* a gene, and one transcript that satisfies no rule.
GeneTranscriptPool ==
    {g @@ [consequence_terms |-> <<"stop_gained">>] :
        g \in Optional("gene_symbol", {"GENE1", "GENE2", "Unknown"})}
    \cup {[consequence_terms |-> <<"synonymous_variant">>, gene_symbol |-> "GENE1"]}

\* The part of an annotation record after its key.
AnnotationPool ==
    Optional("transcript_consequences", SeqsUpTo(GeneTranscriptPool, MaxTranscripts))

RecordPool ==
    {[input |-> VariantKey(<<"1">>, p)] @@ a : p \in PositionPool, a \in AnnotationPool}

InitParse ==
    /\ pc = "loop"
    /\ \E n \in 0..MaxRecords : vep_results \in [1..n -> RecordPool]
    /\ \E n \in 0..MaxCalls : vcf_file \in [1..n -> CallPool({<<"1">>})]
    /\ vcf_reader = 0
    /\ rec_idx = 1
    /\ tc_idx = 1
    /\ all_knockouts = EmptyDict
    /\ homozygous_knockouts = EmptyDict
    /\ KoIdle
    /\ MainIdle

CurrentTranscripts == Get(vep_results[rec_idx], "transcript_consequences", <<>>)

\* line 86, the record is not a knockout: the outer loop moves on.
SkipRecord ==
    /\ pc = "loop"
    /\ rec_idx <= Len(vep_results)
    /\ ~is_knockout(vep_results[rec_idx])
    /\ rec_idx' = rec_idx + 1
    /\ UNCHANGED <<pc, vep_results, vcf_file, vcf_reader, tc_idx, all_knockouts,
                   homozygous_knockouts, koVars, mainVars>>

\* lines 88-99: one transcript consequence of a knockout record.
AggregateTranscript ==
    /\ pc = "loop"
    /\ rec_idx <= Len(vep_results)
    /\ is_knockout(vep_results[rec_idx])
    /\ tc_idx <= Len(CurrentTranscripts)
    /\ LET st == ProcessTranscript(
                     [all |-> all_knockouts, hom |-> homozygous_knockouts,
                      reader |-> vcf_reader, raised |-> FALSE],
                     vep_results[rec_idx].input, CurrentTranscripts[tc_idx], vcf_file)
       IN  /\ all_knockouts' = st.all
           /\ homozygous_knockouts' = st.hom
           /\ vcf_reader' = st.reader
           /\ pc' = IF st.raised THEN "raised" ELSE "loop"
           /\ tc_idx' = IF st.raised THEN tc_idx ELSE tc_idx + 1
    /\ UNCHANGED <<vep_results, vcf_file, rec_idx, koVars, mainVars>>

\* The inner loop is exhausted: the outer loop moves on.
NextRecord ==
    /\ pc = "loop"
    /\ rec_idx <= Len(vep_results)
    /\ is_knockout(vep_results[rec_idx])
    /\ tc_idx > Len(CurrentTranscripts)
    /\ rec_idx' = rec_idx + 1
    /\ tc_idx' = 1
    /\ UNCHANGED <<pc, vep_results, vcf_file, vcf_reader, all_knockouts,
                   homozygous_knockouts, koVars, mainVars>>

\* line 101
ReturnIndices ==
    /\ pc = "loop"
    /\ rec_idx > Len(vep_results)
    /\ pc' = "returned"
    /\ UNCHANGED <<parseVars, koVars, mainVars>>

NextParse == SkipRecord \/ AggregateTranscript \/ NextRecord \/ ReturnIndices

SpecParse == InitParse /\ [][NextParse]_vars

\* The loop, step by step, ends where the whole call ends.
ParseStepsAgree ==
    pc \in {"returned", "raised"} =>
        LET st == parse_vep_results(vep_results, vcf_file)
        IN  /\ st.raised = (pc = "raised")
            /\ st.all = all_knockouts
            /\ st.hom = homozygous_knockouts
            /\ st.reader = vcf_reader

-----------------------------------------------------------------------------
(* The program: main splits the call file by chromosome, annotates and     *)
(* aggregates each partition, and merges the results.                      *)

\* run_vep on a partition: no record when the annotation engine fails,
\* else one record per variant of the file, in file order.
AnnotationsOf(file, annotations) ==
    [i \in 1..Len(file) |->
        [input |-> VariantKey(file[i].CHROM, file[i].POS)] @@ annotations[i]]

Init ==
    /\ pc = "split"
    /\ \E n \in 0..MaxCalls : vcf_file \in [1..n -> CallPool({<<"1">>, <<"2">>})]
    /\ vep_results = <<>> /\ vcf_reader = 0 /\ rec_idx = 1 /\ tc_idx = 1
    /\ all_knockouts = EmptyDict /\ homozygous_knockouts = EmptyDict
    /\ KoIdle
    /\ MainIdle

\* line 111
SplitVcf ==
    /\ pc = "split"
    /\ chromosome_files' = split_vcf_by_chromosome(vcf_file)
    /\ pc' = "merge"
    /\ UNCHANGED <<chrom_idx, main_all_knockouts, main_homozygous_knockouts, partials,
                   parseVars, koVars>>

\* One pass of the loop of lines 116-123 with the results vep of run_vep.
ProcessChromosomeWith(vep) ==
    LET st == parse_vep_results(vep, chromosome_files[chrom_idx].records)
        partial == [all |-> st.all, hom |-> st.hom]
        merged == MergeStep([all |-> main_all_knockouts,
                             hom |-> main_homozygous_knockouts], partial)
    IN  IF st.raised
        THEN /\ pc' = "crashed"
             /\ UNCHANGED mainVars
        ELSE /\ pc' = "merge"
             /\ main_all_knockouts' = merged.all
             /\ main_homozygous_knockouts' = merged.hom
             /\ partials' = Append(partials, partial)
             /\ chrom_idx' = chrom_idx + 1
             /\ UNCHANGED chromosome_files

ProcessChromosome ==
    /\ pc = "merge"
    /\ chrom_idx <= Len(chromosome_files)
    /\ \E annotations \in [1..Len(chromosome_files[chrom_idx].records) -> AnnotationPool] :
           ProcessChromosomeWith(
               AnnotationsOf(chromosome_files[chrom_idx].records, annotations))
    /\ UNCHANGED <<parseVars, koVars>>

\* run_vep catches the failure of the annotation engine and returns [].
ProcessChromosomeVepFails ==
    /\ pc = "merge"
    /\ chrom_idx <= Len(chromosome_files)
    /\ ProcessChromosomeWith(<<>>)
    /\ UNCHANGED <<parseVars, koVars>>

\* lines 125-131
Report ==
    /\ pc = "merge"
    /\ chrom_idx > Len(chromosome_files)
    /\ pc' = "reported"
    /\ UNCHANGED <<mainVars, parseVars, koVars>>

Next == SplitVcf \/ ProcessChromosome \/ ProcessChromosomeVepFails \/ Report

Spec == Init /\ [][Next]_vars

-----------------------------------------------------------------------------
(* Properties of the classifier, stated on the annotation record itself.   *)

LossOfFunctionTerms ==
    {"stop_gained", "frameshift_variant", "splice_donor_variant",
     "splice_acceptor_variant", "start_lost", "transcript_ablation"}

Digits == {"0", "1", "2", "3", "4", "5", "6", "7", "8", "9"}

TranscriptsOf(data) ==
    IF "transcript_consequences" \in DOMAIN data
    THEN data.transcript_consequences ELSE <<>>

TermsOf(tc) ==
    IF "consequence_terms" \in DOMAIN tc
    THEN {tc.consequence_terms[i] : i \in 1..Len(tc.consequence_terms)} ELSE {}

CdsChangeLengthOf(tc) ==
    IF "cds_change_length" \in DOMAIN tc THEN tc.cds_change_length ELSE 0

ExonOf(tc) == IF "exon" \in DOMAIN tc THEN tc.exon ELSE <<>>

HasLossOfFunctionTerm(tc) == TermsOf(tc) \cap LossOfFunctionTerms # {}

IsLargeDeletion(tc) == "deletion" \in TermsOf(tc) /\ CdsChangeLengthOf(tc) > 100

IntegerLike(token) == Len(token) > 0 /\ \A i \in 1..Len(token) : token[i] \in Digits

\* The exon field is first/total, both integer-like, naming the first or the
\* last exon.
IsFirstOrLastExon(tc) ==
    LET tokens == Split(ExonOf(tc), "/")
    IN  /\ Len(tokens) = 2
        /\ IntegerLike(tokens[1])
        /\ IntegerLike(tokens[2])
        /\ (tokens[1] = <<"1">> \/ tokens[1] = tokens[2])

\* C1: a record with a transcript consequence whose terms meet the
\* loss-of-function set is a knockout, wherever that transcript stands in the
\* list and whatever the other transcripts and the other fields hold.
C1_LossOfFunctionIsKnockout ==
    (/\ pc = "done"
     /\ \E i \in 1..Len(TranscriptsOf(variant_data)) :
            HasLossOfFunctionTerm(TranscriptsOf(variant_data)[i]))
        => ko_result = TRUE

\* The loss-of-function transcript stands second, after a transcript that
\* satisfies no rule, and carries none of the optional fields.
C1_Witness ==
    LET transcripts == TranscriptsOf(variant_data)
    IN  /\ pc = "done"
        /\ Len(transcripts) = 2
        /\ ~HasLossOfFunctionTerm(transcripts[1])
        /\ ~IsLargeDeletion(transcripts[1])
        /\ "splice_region_variant" \notin TermsOf(transcripts[1])
        /\ HasLossOfFunctionTerm(transcripts[2])
        /\ DOMAIN transcripts[2] = {"consequence_terms"}
        /\ ko_result = TRUE

\* C2: when the transcripts carry deletion and neither a loss-of-function term
\* nor splice_region_variant, the record is a knockout exactly when a
\* transcript with deletion has cds_change_length above 100 (absent reads 0).
C2_DeletionAbove100 ==
    LET transcripts == TranscriptsOf(variant_data)
    IN  (/\ pc = "done"
         /\ \A i \in 1..Len(transcripts) :
                /\ ~HasLossOfFunctionTerm(transcripts[i])
                /\ "splice_region_variant" \notin TermsOf(transcripts[i])
         /\ \E i \in 1..Len(transcripts) : "deletion" \in TermsOf(transcripts[i]))
            => (ko_result <=> \E i \in 1..Len(transcripts) :
                                  IsLargeDeletion(transcripts[i]))

\* A deletion of length 100 first and one of length 101 second: the record
\* is a knockout by the second alone.
C2_Witness ==
    LET transcripts == TranscriptsOf(variant_data)
    IN  /\ pc = "done"
        /\ Len(transcripts) = 2
        /\ TermsOf(transcripts[1]) = {"deletion"}
        /\ CdsChangeLengthOf(transcripts[1]) = 100
        /\ TermsOf(transcripts[2]) = {"deletion"}
        /\ CdsChangeLengthOf(transcripts[2]) = 101
        /\ ko_result = TRUE

\* C3: when no transcript has a loss-of-function term or a large deletion, the
\* record is a knockout exactly when a transcript with splice_region_variant
\* has an exon field of two integer-like tokens first/total with first = "1"
\* or first = total.
C3_SpliceRegionFirstOrLastExon ==
    LET transcripts == TranscriptsOf(variant_data)
    IN  (/\ pc = "done"
         /\ \A i \in 1..Len(transcripts) :
                /\ ~HasLossOfFunctionTerm(transcripts[i])
                /\ ~IsLargeDeletion(transcripts[i]))
            => (ko_result <=> \E i \in 1..Len(transcripts) :
                                  /\ "splice_region_variant" \in TermsOf(transcripts[i])
                                  /\ IsFirstOrLastExon(transcripts[i]))

-----------------------------------------------------------------------------
(* Properties of the aggregator and of the merge.                          *)

\* A gene-to-list index read as gene-to-set.
AsSets(index) == [g \in DOMAIN index |-> {index[g][i] : i \in 1..Len(index[g])}]

Listed(index, g, v) == g \in DOMAIN index /\ \E i \in 1..Len(index[g]) : index[g][i] = v

NoDuplicates(index) ==
    \A g \in DOMAIN index :
        \A i, j \in 1..Len(index[g]) : index[g][i] = index[g][j] => i = j

Bijections(n) == {f \in [1..n -> 1..n] : \A i, j \in 1..n : f[i] = f[j] => i = j}

Permuted(s, f) == [i \in 1..Len(s) |-> s[f[i]]]

\* The chromosome and the position a variant key names: the text before the
\* colon, and the number written after it.
ColonOf(v) == CHOOSE i \in 1..Len(v) : v[i] = ":" /\ \A j \in 1..(i - 1) : v[j] # ":"

ChromOf(v) == [i \in 1..(ColonOf(v) - 1) |-> v[i]]

DigitValue(c) == CHOOSE d \in 0..9 : DigitChar(d) = c

RECURSIVE NumberFrom(_, _, _)
NumberFrom(v, i, n) ==
    IF i > Len(v) \/ v[i] \notin Digits THEN n
    ELSE NumberFrom(v, i + 1, 10 * n + DigitValue(v[i]))

PosOf(v) == NumberFrom(v, ColonOf(v) + 1, 0)

\* The records of the call file at exactly the chromosome and position of v.
CallsAt(file, v) ==
    {i \in 1..Len(file) : file[i].CHROM = ChromOf(v) /\ file[i].POS = PosOf(v)}

HomozygousOnly(call) == call.num_het = 0 /\ call.num_hom_alt > 0

\* The (variant, gene) pairs the knockout records of the input name.
KnockoutPairs(results) ==
    {<<results[i].input, TranscriptsOf(results[i])[j].gene_symbol>> :
        <<i, j>> \in {<<i, j>> \in (1..Len(results)) \X (1..MaxTranscripts) :
                        /\ \E k \in 1..Len(TranscriptsOf(results[i])) :
                               \/ HasLossOfFunctionTerm(TranscriptsOf(results[i])[k])
                               \/ IsLargeDeletion(TranscriptsOf(results[i])[k])
                               \/ /\ "splice_region_variant" \in
                                         TermsOf(TranscriptsOf(results[i])[k])
                                  /\ IsFirstOrLastExon(TranscriptsOf(results[i])[k])
                        /\ j <= Len(TranscriptsOf(results[i]))
                        /\ "gene_symbol" \in DOMAIN TranscriptsOf(results[i])[j]
                        /\ TranscriptsOf(results[i])[j].gene_symbol # "Unknown"}}

\* C4: in the indices parse_vep_results returns, a variant recorded under a
\* gene is in the homozygous index exactly when the call record at exactly
\* its chromosome and position has no heterozygous and some homozygous-alt
\* sample (files with several records at that position apart); and only the
\* pairs of knockout records are recorded.
C4_HomozygousByExactPosition ==
    pc = "returned" =>
        /\ \A g \in DOMAIN all_knockouts :
               \A k \in 1..Len(all_knockouts[g]) :
                   LET v == all_knockouts[g][k]
                       calls == CallsAt(vcf_file, v)
                   IN  Cardinality(calls) <= 1 =>
                           (Listed(homozygous_knockouts, g, v)
                                <=> \E i \in calls : HomozygousOnly(vcf_file[i]))
        /\ \A g \in DOMAIN all_knockouts :
               \A k \in 1..Len(all_knockouts[g]) :
                   <<all_knockouts[g][k], g>> \in KnockoutPairs(vep_results)

\* C6: in the indices parse_vep_results returns, no variant key occurs twice
\* in the list of a gene.
C6_NoDuplicateVariantKeys ==
    pc = "returned" => NoDuplicates(all_knockouts) /\ NoDuplicates(homozygous_knockouts)

\* C7: a lookup that finds no genotype record raises no error, and the call
\* returns with every (variant, gene) pair of the knockout records in
\* all_knockouts.
C7_MissingGenotypeIsNoError ==
    /\ pc # "raised"
    /\ pc = "returned" =>
           \A pair \in KnockoutPairs(vep_results) :
               Listed(all_knockouts, pair[2], pair[1])

\* C10: when parse_vep_results returns for the annotation records in one
\* order, it returns for every permutation of them over the same call file,
\* with the same set of variant keys per gene in both indices.
C10_RecordOrderIrrelevant ==
    pc = "returned" =>
        \A f \in Bijections(Len(vep_results)) :
            LET st == parse_vep_results(Permuted(vep_results, f), vcf_file)
            IN  /\ ~st.raised
                /\ AsSets(st.all) = AsSets(all_knockouts)
                /\ AsSets(st.hom) = AsSets(homozygous_knockouts)

\* The homozygous index lies within the all-knockouts index.
Within(hom, all) ==
    \A g \in DOMAIN hom :
        /\ g \in DOMAIN all
        /\ \A i \in 1..Len(hom[g]) : Listed(all, g, hom[g][i])

\* C5: in every state, in the result of every partition and in the merged
\* indices of main, a gene of the homozygous index is a gene of the
\* all-knockouts index, and its homozygous variants are among its knockouts.
C5_HomozygousWithinAll ==
    /\ Within(homozygous_knockouts, all_knockouts)
    /\ \A i \in 1..Len(partials) : Within(partials[i].hom, partials[i].all)
    /\ Within(main_homozygous_knockouts, main_all_knockouts)

\* The genes and the variant keys of an index.
PairsOf(index) ==
    UNION {{<<g, index[g][i]>> : i \in 1..Len(index[g])} : g \in DOMAIN index}

\* C8: the merged indices are the per-gene union of the partitions' indices
\* (a pair is in the merged index exactly when a partition recorded it), and
\* list a key once when the partitions do.
C8_MergeIsUnion ==
    pc = "reported" =>
        /\ PairsOf(main_all_knockouts)
               = UNION {PairsOf(partials[i].all) : i \in 1..Len(partials)}
        /\ PairsOf(main_homozygous_knockouts)
               = UNION {PairsOf(partials[i].hom) : i \in 1..Len(partials)}
        /\ (\A i \in 1..Len(partials) :
                NoDuplicates(partials[i].all) /\ NoDuplicates(partials[i].hom))
               => NoDuplicates(main_all_knockouts) /\ NoDuplicates(main_homozygous_knockouts)

\* C9: merging the partitions' results in any order gives the same sets per
\* gene, and merging one partition gives its pair back.
C9_MergeCommutes ==
    pc = "reported" =>
        /\ \A f \in Bijections(Len(partials)) :
               LET merged == MergePartitions(Permuted(partials, f))
               IN  /\ AsSets(merged.all) = AsSets(main_all_knockouts)
                   /\ AsSets(merged.hom) = AsSets(main_homozygous_knockouts)
        /\ Len(partials) = 1 =>
               /\ main_all_knockouts = partials[1].all
               /\ main_homozygous_knockouts = partials[1].hom

=============================================================================
